---- MODULE Spec2Model ----
(***************************************************************************)
(* A model of the Go rules engine: the graph container of src/graph.py,    *)
(* the board of src/board.py and the move loop of src/player.py and        *)
(* src/go.py.                                                              *)
(*                                                                         *)
(* A graph is a Python dict of sets.  A dict keeps its keys in insertion   *)
(* order, and that order is observable (popitem, Board.copy), so a graph   *)
(* is the record [keys |-> the keys in dict order, nbr |-> the             *)
(* neighbourhood of every key].  A loop over a set visits its members in   *)
(* ascending order (CPython's order for a set of small integers).          *)
(* An operation that raises leaves the graph as it was when the exception  *)
(* was raised; the exception's name is kept in the result's exc field.     *)
(***************************************************************************)
EXTENDS Integers, Sequences, FiniteSets, TLC

\* Graph nodes are 1..MaxNode; a mapping handed to the constructor or to update
\* has at most MaxItems keys.
MaxNode == 3
MaxItems == 2

Nodes == 1 .. MaxNode

\* The game is played on a board of half-extent BoardSize, and is followed up
\* to MaxPlies accepted placements; the players enter points of the ranks up
\* to MaxRank.
BoardSize == 1
MaxPlies == 4
MaxRank == 0

\* A call chain is followed up to RecursionLimit frames of Board.__init__, where
\* the interpreter raises RecursionError.  A board of its own takes up to
\* MaxOps placements and removals.
RecursionLimit == 3
MaxOps == 3

\* Liberties are asked of sets of at most MaxGroup points, on boards of at
\* most MaxStones stones.
MaxGroup == 3
MaxStones == 3

\* A graph takes up to MaxCalls calls whose arguments and results are kept.
MaxCalls == 2

VARIABLES
    g,        \* the Undirected graph under test
    call,     \* the last graph operation: its name and arguments and, for cluster
              \* and clusters, the graph it was called on
    ret,      \* what the last graph operation returned
    exc,      \* the exception the last graph operation raised, or "none"
    board,    \* Go.board, the board both players play on
    state,    \* Player.state of either player
    passed,   \* Player.passed of either player
    current,  \* the player Go.turn took from the cycle, who is inside Player.move
    over,     \* Go.turn has exited the program ("GAME OVER")
    last,     \* the last entry read by Player.move and what became of it
    turns,    \* how each of the last two completed turns ended
    plies,    \* the number of placements accepted so far
    pos,      \* a board of its own, on which one method is called at a time
    done,     \* the last method called on pos: its arguments, the board it was
              \* called on and what it returned
    made      \* the last call of a constructor and what came of it

gvars == <<g, call, ret, exc>>

gamevars == <<board, state, passed, current, over, last, turns, plies>>

unitvars == <<pos, done, made>>

vars == <<g, call, ret, exc, board, state, passed, current, over, last, turns, plies,
          pos, done, made>>

----------------------------------------------------------------------------
(* Sets and sequences.                                                     *)

Min(S) == CHOOSE x \in S : \A y \in S : x <= y

RECURSIVE Sorted(_)
Sorted(S) ==
    IF S = {} THEN <<>>
    ELSE LET least == Min(S) IN <<least>> \o Sorted(S \ {least})

Range(s) == {s[i] : i \in DOMAIN s}

----------------------------------------------------------------------------
(* dict: the operations of the built-in the graph classes inherit.         *)

EmptyGraph == [keys |-> <<>>, nbr |-> <<>>]

Has(G, n) == n \in DOMAIN G.nbr

DictSet(G, n, S) ==
    IF Has(G, n)
    THEN [G EXCEPT !.nbr[n] = S]
    ELSE [keys |-> Append(G.keys, n),
          nbr  |-> [m \in DOMAIN G.nbr \cup {n} |-> IF m = n THEN S ELSE G.nbr[m]]]

DictDel(G, n) ==
    [keys |-> SelectSeq(G.keys, LAMBDA k : k # n),
     nbr  |-> [m \in DOMAIN G.nbr \ {n} |-> G.nbr[m]]]

Result(G, r, e) == [g |-> G, ret |-> r, exc |-> e]

----------------------------------------------------------------------------
(* Directed and Undirected.                                                *)

\* Directed.setdefault: an absent node gets the default itself as its
\* neighbourhood; no other neighbourhood is touched.
setdefault(G, node, default) ==
    IF Has(G, node)
    THEN Result(G, G.nbr[node], "none")
    ELSE Result(DictSet(G, node, default), default, "none")

\* The loop of Undirected.add over the neighbourhood (in todo, a sequence).
RECURSIVE add_symmetric(_, _, _)
add_symmetric(G, node, todo) ==
    IF todo = <<>> THEN G
    ELSE LET adjacent_node == Head(todo)
             G1 == setdefault(G, adjacent_node, {}).g
         IN  add_symmetric(DictSet(G1, adjacent_node, G1.nbr[adjacent_node] \cup {node}),
                           node, Tail(todo))

\* Directed.add, which adds no symmetric edge.
add_one_way(G, node, neighbohood) ==
    LET G1 == setdefault(G, node, {}).g
    IN  DictSet(G1, node, G1.nbr[node] \cup neighbohood)

\* Undirected.add
add(G, node, neighbohood) ==
    LET G1 == setdefault(G, node, {}).g
        G2 == DictSet(G1, node, G1.nbr[node] \cup neighbohood)
    IN  add_symmetric(G2, node, Sorted(neighbohood))

\* The loop of Undirected.pop over the popped neighbourhood: an adjacent
\* node that is no key raises KeyError (dict.__getitem__).
RECURSIVE pop_symmetric(_, _, _)
pop_symmetric(G, node, todo) ==
    IF todo = <<>> THEN Result(G, {}, "none")
    ELSE LET adjacent_node == Head(todo)
         IN  IF ~Has(G, adjacent_node)
             THEN Result(G, {}, "KeyError")
             ELSE pop_symmetric(DictSet(G, adjacent_node, G.nbr[adjacent_node] \ {node}),
                                node, Tail(todo))

\* Undirected.pop
pop(G, node, default_neighborhood) ==
    LET neighborhood == IF Has(G, node) THEN G.nbr[node] ELSE default_neighborhood
        G1 == IF Has(G, node) THEN DictDel(G, node) ELSE G
        r  == pop_symmetric(G1, node, Sorted(neighborhood))
    IN  Result(r.g, IF r.exc = "none" THEN neighborhood ELSE {}, r.exc)

\* Undirected.__delitem__
delitem(G, node) == pop(G, node, {})

\* Undirected.popitem; the node of the returned pair is the last key.
popitem(G) ==
    IF G.keys = <<>>
    THEN Result(G, {}, "KeyError")
    ELSE LET node == G.keys[Len(G.keys)]
             r    == pop(DictDel(G, node), node, G.nbr[node])
         IN  Result(r.g, r.ret, r.exc)

\* Directed.__setitem__
setitem(G, node, neighborhood) ==
    LET r == pop(G, node, {})
    IN  IF r.exc # "none" THEN Result(r.g, {}, r.exc)
        ELSE Result(add(r.g, node, neighborhood \ {node}), {}, "none")

\* Directed.update; other is a graph (a dict in its own key order).
RECURSIVE update_items(_, _, _)
update_items(G, other, i) ==
    IF i > Len(other.keys) THEN G
    ELSE update_items(add(G, other.keys[i], other.nbr[other.keys[i]]), other, i + 1)

update(G, other) == update_items(G, other, 1)

\* Directed.__init__: the self-edges of the mapping are discarded.
DirectedInit(mapping) ==
    [keys |-> mapping.keys,
     nbr  |-> [n \in DOMAIN mapping.nbr |-> mapping.nbr[n] \ {n}]]

\* Undirected.__init__: self.update(self.copy()).  The copy is a shallow one:
\* it fixes the keys, while each neighbourhood read through it is the set the
\* graph holds at that moment.
RECURSIVE update_copy(_, _, _)
update_copy(G, keys, i) ==
    IF i > Len(keys) THEN G
    ELSE update_copy(add(G, keys[i], G.nbr[keys[i]]), keys, i + 1)

\* Undirected.__init__ without the update: no mirror edge is added.
init_without_mirror(mapping) == DirectedInit(mapping)

UndirectedInit(mapping) ==
    LET G == DirectedInit(mapping) IN update_copy(G, G.keys, 1)

\* Directed.cluster and its loop over the popped neighbourhood.  The node is
\* popped, every adjacent node that meets the condition is clustered in what
\* is left, and the node is added back.  condition is the set of the nodes
\* the predicate is true of.
RECURSIVE cluster(_, _, _)
RECURSIVE cluster_propagate(_, _, _, _)
cluster_propagate(G, todo, condition, nodes) ==
    IF todo = <<>> THEN Result(G, nodes, "none")
    ELSE LET adjacent_node == Head(todo)
         IN  IF adjacent_node \in condition
             THEN LET c == cluster(G, adjacent_node, condition)
                  IN  IF c.exc # "none" THEN c
                      ELSE cluster_propagate(c.g, Tail(todo), condition, nodes \cup c.ret)
             ELSE cluster_propagate(G, Tail(todo), condition, nodes)

\* cluster, with the root held to the condition like every other node.
cluster_root_on_condition(G, node, condition) ==
    LET p == pop(G, node, {})
    IN  IF p.exc # "none" THEN Result(p.g, {}, p.exc)
        ELSE LET c == cluster_propagate(p.g, Sorted(p.ret), condition, {node} \cap condition)
             IN  IF c.exc # "none" THEN Result(c.g, {}, c.exc)
                 ELSE Result(add(c.g, node, p.ret), c.ret, "none")

cluster(G, node, condition) ==
    LET p == pop(G, node, {})
    IN  IF p.exc # "none" THEN Result(p.g, {}, p.exc)
        ELSE LET c == cluster_propagate(p.g, Sorted(p.ret), condition, {node})
             IN  IF c.exc # "none" THEN Result(c.g, {}, c.exc)
                 ELSE Result(add(c.g, node, p.ret), c.ret, "none")

\* Directed.clusters: one cluster per key of a copy of the graph.
RECURSIVE clusters_from(_, _, _, _, _)
clusters_from(G, keys, i, condition, found) ==
    IF i > Len(keys) THEN Result(G, found, "none")
    ELSE LET c == cluster(G, keys[i], condition)
         IN  IF c.exc # "none" THEN Result(c.g, {}, c.exc)
             ELSE clusters_from(c.g, keys, i + 1, condition, found \cup {c.ret})

clusters(G, condition) == clusters_from(G, G.keys, 1, condition, {})

\* dict.clear: every node is removed.
clear_all(G) == EmptyGraph

\* Directed.clear: the nodes of a copy of the graph whose neighbourhood is
\* empty are deleted from the dict.
clear(G) ==
    [keys |-> SelectSeq(G.keys, LAMBDA node : G.nbr[node] # {}),
     nbr  |-> [node \in {n \in DOMAIN G.nbr : G.nbr[n] # {}} |-> G.nbr[node]]]

\* Directed.edge_list
edge_list(G) == {<<node, adjacent_node>> : node \in DOMAIN G.nbr, adjacent_node \in Nodes} \cap
                {e \in Nodes \X Nodes : Has(G, e[1]) /\ e[2] \in G.nbr[e[1]]}

\* Directed.boundary without the difference: the members of the cluster that
\* are next to another member are kept.
boundary_with_cluster(G, nodes) ==
    IF \E n \in nodes : ~Has(G, n)
    THEN Result(G, {}, "KeyError")
    ELSE Result(G, UNION {G.nbr[n] : n \in nodes}, "none")

\* Directed.boundary; a member of the cluster that is no key raises KeyError.
boundary(G, nodes) ==
    IF \E n \in nodes : ~Has(G, n)
    THEN Result(G, {}, "KeyError")
    ELSE Result(G, UNION {G.nbr[n] : n \in nodes} \ nodes, "none")

----------------------------------------------------------------------------
(* Point, Stone and Board.                                                 *)
(*                                                                         *)
(* A stone is a point (file, rank, size) with a colour; as a key of the    *)
(* board's dict it is the point, so two stones are the same key when file, *)
(* rank and size agree.                                                    *)
(*                                                                         *)
(* A board is a graph whose keys are stones.  Its record holds              *)
(*   size   the size it was built with;                                    *)
(*   kept   the stones of the graph it was built over that are not on a    *)
(*          point of its own grid, in dict order (they stay the first      *)
(*          keys of the dict);                                             *)
(*   moved  the dict order of the stones of its own grid.  Board.__init__  *)
(*          inserts them rank by rank, file by file, and a key that is     *)
(*          popped and added again goes to the end of the dict, so the     *)
(*          order is an ascending run of point numbers followed by the     *)
(*          re-inserted keys; moved is what follows the longest ascending  *)
(*          run;                                                           *)
(*   color  the colour of every stone of its own grid that is not empty.   *)
(* Board.__init__ wires every stone to the stones on the orthogonally      *)
(* adjacent points of its own size and no later operation changes an       *)
(* edge, so the neighbourhoods are a function of the points (neighbors).   *)
(* The methods of graph.py are applied to a board as they are to any       *)
(* graph: their self.__getitem__ and self.copy read the dict.              *)

DefaultSize == 9

Players == {"black", "white"}

Stone(file, rank, size, color) ==
    [file |-> file, rank |-> rank, size |-> size, color |-> color]

\* Point.__eq__
SamePoint(a, b) == a.file = b.file /\ a.rank = b.rank /\ a.size = b.size

\* Point.__bool__
InBounds(file, rank, size) ==
    -size <= file /\ file <= size /\ -size <= rank /\ rank <= size

\* The points of a size in the order of the loops of Board.__init__ (rank by
\* rank, file by file), numbered from 1.
Side(size) == 2 * size + 1

Index(file, rank, size) == (rank + size) * Side(size) + (file + size) + 1

FileOf(i, size) == ((i - 1) % Side(size)) - size

RankOf(i, size) == ((i - 1) \div Side(size)) - size

\* Stone.adjacencies: east, north, west, south.
adjacencies == {<<1, 0>>, <<0, 1>>, <<-1, 0>>, <<0, -1>>}

\* The adjacent points, within the bounds or not.
neighbors_unbounded(i, size) ==
    {Index(FileOf(i, size) + d[1], RankOf(i, size) + d[2], size) : d \in adjacencies}

\* The neighbourhood Board.__init__ gives the point numbered i: the adjacent
\* points that are within the bounds.
neighbors(i, size) ==
    {Index(FileOf(i, size) + d[1], RankOf(i, size) + d[2], size) :
        d \in {e \in adjacencies :
                  InBounds(FileOf(i, size) + e[1], RankOf(i, size) + e[2], size)}}

\* The neighbourhoods of the points of the board the game is played on.
Lattice == [i \in 1 .. Side(BoardSize) * Side(BoardSize) |-> neighbors(i, BoardSize)]

\* The part of a dict order after its longest ascending run.
RECURSIVE Moved(_)
Moved(keys) ==
    IF Len(keys) <= 1 THEN <<>>
    ELSE LET rest == Moved(SubSeq(keys, 1, Len(keys) - 1))
         IN  IF rest = <<>> /\ keys[Len(keys) - 1] < keys[Len(keys)]
             THEN <<>>
             ELSE Append(rest, keys[Len(keys)])

\* The numbers of the points of the board's own grid, in dict order.
Keys(B) ==
    LET last_keys == Range(B.moved)
    IN  SelectSeq([i \in 1 .. Side(B.size) * Side(B.size) |-> i],
                  LAMBDA i : i \notin last_keys) \o B.moved

ColorAt(B, i) == IF i \in DOMAIN B.color THEN B.color[i] ELSE "empty"

\* The stones of the board in dict order.
Stones(B) ==
    LET keys == Keys(B)
    IN  B.kept \o [k \in 1 .. Len(keys) |->
                      Stone(FileOf(keys[k], B.size), RankOf(keys[k], B.size), B.size,
                            ColorAt(B, keys[k]))]

NoBoard == [size |-> 0, kept |-> <<>>, moved |-> <<1>>, color |-> <<>>]

\* Board.__init__(other, size, color).  color maps the number of a call of
\* the callback to the colour it returns, where that is not empty.  The
\* stones of other stay in the dict, except those on a point of the new
\* board, which the first loop pops; the stones of the new board follow in
\* the order of the loops.
Board(other, size, color) ==
    [size  |-> size,
     kept  |-> IF other = NoBoard THEN <<>>
               ELSE SelectSeq(Stones(other),
                              LAMBDA st : ~(st.size = size /\ InBounds(st.file, st.rank, size))),
     moved |-> <<>>,
     color |-> color]

\* Board.copy: the colours are read in dict order and handed out in the
\* order of the loops of Board.__init__.
copy(B) ==
    LET stones == Stones(B)
        seen   == {k \in 1 .. Len(stones) : stones[k].color # "empty"}
    IN  Board(NoBoard, B.size, [k \in seen |-> stones[k].color])

\* The number of keys of the board's dict.
Count(B) == Len(B.kept) + Side(B.size) * Side(B.size)

\* Whether a stone on the point is a key of the board's dict.
HasKey(B, point) ==
    \/ point.size = B.size /\ InBounds(point.file, point.rank, B.size)
    \/ \E k \in DOMAIN B.kept : SamePoint(B.kept[k], point)

\* Board.__getitem__ finding every point empty.
getitem_empty(B, point) == [point EXCEPT !.color = "empty"]

\* Board.__getitem__: the stone of the dict on the point (a key of the dict).
getitem(B, point) ==
    IF point.size = B.size /\ InBounds(point.file, point.rank, B.size)
    THEN Stone(point.file, point.rank, B.size,
               ColorAt(B, Index(point.file, point.rank, B.size)))
    ELSE B.kept[Min({k \in DOMAIN B.kept : SamePoint(B.kept[k], point)})]

\* The graph of the board's own grid, over the numbers of the points.
Graph(B) ==
    [keys |-> Keys(B),
     nbr  |-> IF B.size = BoardSize THEN Lattice
              ELSE [i \in 1 .. Side(B.size) * Side(B.size) |-> neighbors(i, B.size)]]

\* The board with the stone on its point, in place of the one that was.
Colored(B, stone) ==
    LET i == Index(stone.file, stone.rank, B.size)
    IN  [B EXCEPT !.color =
            [j \in (IF stone.color = "empty" THEN DOMAIN B.color \ {i}
                                             ELSE DOMAIN B.color \cup {i}) |->
                IF j = i THEN stone.color ELSE B.color[j]]]

\* Board.put: Directed.__setitem__ pops the stone on the point and adds the
\* given one, with the same neighbourhood, at the end of the dict.
put(B, stone) ==
    LET i == Index(stone.file, stone.rank, B.size)
        G == Graph(B)
    IN  [Colored(B, stone) EXCEPT !.moved = Moved(setitem(G, i, G.nbr[i]).g.keys)]

\* Board.remove leaving the stone its colour.
remove_keeps_color(B, stone) == B

\* Board.remove: the stone on the point is made empty where it is.
remove(B, stone) == Colored(B, [stone EXCEPT !.color = "empty"])

\* Board.liberties counting every stone of the boundary.
liberties_of_any_color(B, nodes) == boundary(Graph(B), nodes).ret

\* Board.liberties: the stones of the boundary whose colour is empty.
liberties(B, nodes) ==
    {i \in boundary(Graph(B), nodes).ret : ColorAt(B, i) = "empty"}

\* Board.__eq__: the dicts are equal (as many keys, and every key of the one
\* a key of the other with an equal neighbourhood, which the points decide)
\* and every stone has the colour of the other board's stone on its point.
eq(A, B) ==
    /\ Count(A) = Count(B)
    /\ LET stones == Stones(A)
       IN  /\ \A k \in DOMAIN stones : HasKey(B, stones[k])
           /\ \A k \in DOMAIN stones : stones[k].color = getitem(B, stones[k]).color

----------------------------------------------------------------------------
(* Player and Go.                                                          *)

\* Player.__post_init__ and the record of an accepted move:
\* Board(self.board.copy()).
remembered(B) == Board(copy(B), DefaultSize, <<>>)

\* Player.base: the cluster of the stone under color_similarity, and the
\* board in the dict order the traversal leaves.
base(B, stone, color) ==
    LET c == cluster(Graph(B), Index(stone.file, stone.rank, B.size),
                     {i \in DOMAIN B.color : B.color[i] = color})
    IN  [board |-> [B EXCEPT !.moved = Moved(c.g.keys)], nodes |-> c.ret]

\* A cycle of one player.
next_is_same(player) == player

\* The cycle of Go.__post_init__.
next(player) == IF player = "black" THEN "white" ELSE "black"

\* Player.move leaving the pass status as it was.
reset_nothing(flags, player) == flags

\* Player.move resets the pass status of the player it is called for.
reset(flags, player) == [flags EXCEPT ![player] = FALSE]

Entry(kind, file, rank) == [kind |-> kind, mover |-> current, file |-> file, rank |-> rank]

LastTwo(s) == IF Len(s) <= 2 THEN s ELSE SubSeq(s, Len(s) - 1, Len(s))

\* No method has been called on pos, and no constructor.
NotCalled ==
    [op |-> "none", color |-> "empty", nodes |-> {}, pre |-> NoBoard, out |-> {},
     exc |-> "none", n |-> 0]

NotMade == [op |-> "none", size |-> 0, exc |-> "none", refs |-> <<>>]

UnitInit ==
    /\ pos = NoBoard
    /\ done = NotCalled
    /\ made = NotMade

GameInit ==
    /\ board = Board(NoBoard, BoardSize, <<>>)
    /\ state = [p \in Players |-> remembered(Board(NoBoard, BoardSize, <<>>))]
    /\ passed = [p \in Players |-> FALSE]
    /\ current = "black"
    /\ over = FALSE
    /\ last = [kind |-> "start", mover |-> "black", file |-> 0, rank |-> 0]
    /\ turns = <<>>
    /\ plies = 0

\* Player.move returns: Go.turn exits if both players have passed, and else
\* the next call of Go.turn takes the next player, whose move starts.
Return(flags, kind) ==
    /\ turns' = LastTwo(Append(turns, kind))
    /\ IF flags["black"] /\ flags["white"]
       THEN /\ over' = TRUE
            /\ passed' = flags
            /\ current' = current
       ELSE /\ over' = FALSE
            /\ passed' = reset(flags, next(current))
            /\ current' = next(current)

\* The entry "pass".
Pass ==
    /\ ~over
    /\ last' = Entry("pass", 0, 0)
    /\ Return([passed EXCEPT ![current] = TRUE], "pass")
    /\ UNCHANGED <<board, state, plies>>

\* An entry that is neither "pass" nor a move: Player.move asks again.
TryAgain ==
    /\ ~over
    /\ last' = Entry("invalid", 0, 0)
    /\ UNCHANGED <<board, state, passed, current, over, turns, plies>>

\* An entry that is a move: a signed digit up to the size for the file and
\* one for the rank (here, ranks up to MaxRank).
Move ==
    /\ ~over
    /\ \E file \in -board.size .. board.size, rank \in -board.size .. MaxRank :
        LET stone  == Stone(file, rank, board.size, current)
            own    == base(put(board, stone), stone, current)
            free   == liberties(own.board, own.nodes)
            repeat == Count(state[current]) > 0 /\ eq(own.board, state[current])
        IN  IF getitem(board, stone).color # "empty"
            THEN /\ last' = Entry("occupied", file, rank)
                 /\ UNCHANGED <<board, state, passed, current, over, turns, plies>>
            ELSE IF free = {} \/ repeat
            THEN /\ last' = Entry(IF free = {} THEN "suicide" ELSE "ko", file, rank)
                 /\ board' = remove(own.board, stone)
                 /\ UNCHANGED <<state, passed, current, over, turns, plies>>
            ELSE /\ plies < MaxPlies
                 /\ last' = Entry("legal", file, rank)
                 /\ board' = own.board
                 /\ state' = [state EXCEPT ![current] = remembered(own.board)]
                 /\ plies' = plies + 1
                 /\ Return(passed, "move")

Next ==
    \/ (Pass /\ UNCHANGED gvars /\ UNCHANGED unitvars)
    \/ (TryAgain /\ UNCHANGED gvars /\ UNCHANGED unitvars)
    \/ (Move /\ UNCHANGED gvars /\ UNCHANGED unitvars)

----------------------------------------------------------------------------
(* The graph under test: construction, then any sequence of operations.    *)

MappingsOver(K) == {[keys |-> Sorted(K), nbr |-> f] : f \in [K -> SUBSET Nodes]}

Mappings == UNION {MappingsOver(K) : K \in {K \in SUBSET Nodes : Cardinality(K) <= MaxItems}}

Called(op, node, condition, pre) ==
    [op |-> op, node |-> node, condition |-> condition, pre |-> pre]

GraphInit ==
    /\ \E mapping \in Mappings : g = UndirectedInit(mapping)
    /\ call = Called("init", 0, {}, EmptyGraph)
    /\ ret = {}
    /\ exc = "none"
    /\ GameInit
    /\ UnitInit

Init ==
    /\ g = EmptyGraph
    /\ call = Called("init", 0, {}, EmptyGraph)
    /\ ret = {}
    /\ exc = "none"
    /\ GameInit
    /\ UnitInit

Spec == Init /\ [][Next]_vars

\* The graph after a call and the exception it raised, if any.
Mutates(r) ==
    /\ g' = r.g
    /\ exc' = r.exc
    /\ UNCHANGED <<call, ret>>
    /\ UNCHANGED gamevars
    /\ UNCHANGED unitvars

Add ==
    \E node \in Nodes, neighbohood \in SUBSET Nodes :
        Mutates(Result(add(g, node, neighbohood), {}, "none"))

Update ==
    \E other \in Mappings :
        Mutates(Result(update(g, other), {}, "none"))

SetItem ==
    \E node \in Nodes, neighborhood \in SUBSET Nodes :
        Mutates(setitem(g, node, neighborhood))

SetDefault ==
    \E node \in Nodes, default \in SUBSET Nodes :
        Mutates(setdefault(g, node, default))

Pop ==
    \E node \in Nodes, default \in SUBSET Nodes :
        Mutates(pop(g, node, default))

Del ==
    \E node \in Nodes :
        Mutates(delitem(g, node))

PopItem ==
    Mutates(popitem(g))

Traverse ==
    \E node \in Nodes, condition \in SUBSET Nodes :
        \/ Mutates(cluster(g, node, condition))
        \/ Mutates(clusters(g, condition))

GraphNext ==
    \/ Add
    \/ Update
    \/ SetItem
    \/ SetDefault
    \/ Pop
    \/ Del
    \/ PopItem
    \/ Traverse

GraphSpec == GraphInit /\ [][GraphNext]_vars

----------------------------------------------------------------------------
(* cluster and clusters as functions: each is applied to a constructed     *)
(* graph, and the call, the graph it was made on and its result are kept.  *)

Returns(op, node, condition, r) ==
    /\ call' = Called(op, node, condition, g)
    /\ g' = r.g
    /\ ret' = r.ret
    /\ exc' = r.exc
    /\ UNCHANGED gamevars
    /\ UNCHANGED unitvars

Cluster ==
    \E node \in Nodes, condition \in SUBSET Nodes :
        Returns("cluster", node, condition, cluster(g, node, condition))

Clusters ==
    \E condition \in SUBSET Nodes :
        Returns("clusters", 0, condition, clusters(g, condition))

ClusterNext ==
    \/ Cluster
    \/ Clusters

ClusterSpec == GraphInit /\ [][ClusterNext]_vars

----------------------------------------------------------------------------
(* Properties of the graph.                                                *)

\* Every edge of G leads to a node of G and has its mirror image.
Symmetric(G) ==
    \A n \in DOMAIN G.nbr : \A m \in G.nbr[n] : Has(G, m) /\ n \in G.nbr[m]

\* The nodes a path from the nodes of R reaches, every node on the path
\* after its first being in condition.
RECURSIVE Reached(_, _, _)
Reached(G, condition, R) ==
    LET step == R \cup {m \in condition : \E n \in R : Has(G, n) /\ m \in G.nbr[n]}
    IN  IF step = R THEN R ELSE Reached(G, condition, step)

\* C1: after any sequence of operations on an Undirected graph, every
\* neighbour m of every node n is a node of the graph and has n as a
\* neighbour.
C1_SymmetricEdges == Symmetric(g)

\* C2: clusters(predicate) returns a partition of the node set: the clusters
\* cover the nodes of the graph, two distinct clusters share no node, and
\* under the constantly false predicate every cluster is a singleton.
C2_ClustersPartition ==
    (call.op = "clusters") =>
        /\ exc = "none"
        /\ UNION ret = DOMAIN call.pre.nbr
        /\ \A a, b \in ret : a # b => a \cap b = {}
        /\ call.condition = {} => ret = {{n} : n \in DOMAIN call.pre.nbr}

----------------------------------------------------------------------------
(* Properties of the game.  A position is read off the board by the rules  *)
(* of Go, not by the methods of the program: a group is a maximal set of   *)
(* connected points of one colour, and its liberties are the empty points  *)
(* next to it.                                                             *)

\* The opponent of a player.
Other(player) == CHOOSE opponent \in Players : opponent # player

Points(B) == 1 .. Side(B.size) * Side(B.size)

Colors(B) == [i \in Points(B) |-> ColorAt(B, i)]

\* The points a path of adjacent points of S reaches from the points of R.
RECURSIVE Connected(_, _)
Connected(S, R) ==
    LET step == R \cup {m \in S : Lattice[m] \cap R # {}}
    IN  IF step = R THEN R ELSE Connected(S, step)

Group(B, i) ==
    LET color == ColorAt(B, i)
    IN  Connected({j \in Points(B) : ColorAt(B, j) = color}, {i})

GroupLiberties(B, i) ==
    LET group == Group(B, i)
    IN  {j \in Points(B) : ColorAt(B, j) = "empty" /\ Lattice[j] \cap group # {}}

\* The stones of the colour whose group has no liberty.
Dead(B, color) ==
    {i \in DOMAIN B.color : B.color[i] = color /\ GroupLiberties(B, i) = {}}

\* The position with a stone of the colour on the point.
Placed(B, i, color) ==
    Colored(B, Stone(FileOf(i, B.size), RankOf(i, B.size), B.size, color))

\* The position after the placement and the capture of the opponent's groups
\* it leaves without a liberty.
Resolved(B, i, color) ==
    LET P == Placed(B, i, color)
    IN  [P EXCEPT !.color = [j \in DOMAIN P.color \ Dead(P, Other(color)) |-> P.color[j]]]

\* The entries that put a stone on an empty point, and the point of the last.
Placements == {"suicide", "ko", "legal"}

At == Index(last.file, last.rank, board.size)

RememberedAt(S, B, i) ==
    LET point == Stone(FileOf(i, B.size), RankOf(i, B.size), B.size, "empty")
    IN  IF HasKey(S, point) THEN getitem(S, point).color ELSE "none"

Attempts == Placements \cup {"occupied"}

----------------------------------------------------------------------------
(* The constructors as they are called.  Board.__init__ calls              *)
(* Undirected.__init__ before its own loops, and that calls self.copy(),   *)
(* which on a board is Board.copy and calls Board.__init__ again.  (The    *)
(* operator Board above is the constructor's own loops, lines 49-70.)      *)

\* Board(size=size), being the depth-th frame of Board.__init__ on the stack:
\* line 47, then graph.py line 315, then Board.copy line 135.  An exception
\* passes through every frame.
RECURSIVE BoardNew(_, _)
BoardNew(size, depth) ==
    IF depth > RecursionLimit
    THEN [exc |-> "RecursionError", board |-> NoBoard]
    ELSE LET copied == BoardNew(size, depth + 1)
         IN  IF copied.exc # "none" THEN copied
             ELSE [exc |-> "none", board |-> Board(copied.board, size, <<>>)]

\* What a name of the class body of Go, or an argument of Go(), refers to:
\* the object field() returned, or a board.
Field == "Field"

\* Player(board=ref, ...): __post_init__ calls ref.copy(), which a Field does
\* not have, and hands the copy of a board to Board().
PlayerNew(ref) ==
    [board |-> ref,
     exc   |-> IF ref = Field THEN "AttributeError" ELSE BoardNew(DefaultSize, 1).exc]

\* The class body of Go: the name board is bound to field(default_factory=Board),
\* and the defaults of black and white are players made with that name.
GoClass ==
    LET black == PlayerNew(Field)
        white == PlayerNew(Field)
    IN  [black |-> black.board, white |-> white.board,
         exc   |-> IF black.exc # "none" THEN black.exc ELSE white.exc]

\* main.py: src.go is imported, which runs the class body of Go, and then
\* Go(board=Board(size=size)) makes the given board and takes the defaults for
\* black and white.
GoNew(size) ==
    IF GoClass.exc # "none"
    THEN [exc |-> GoClass.exc, refs |-> <<>>]
    ELSE IF BoardNew(size, 1).exc # "none"
    THEN [exc |-> BoardNew(size, 1).exc, refs |-> <<>>]
    ELSE [exc |-> "none",
          refs |-> [game |-> "given", black |-> GoClass.black, white |-> GoClass.white]]

\* Board(size=size) is called.
NewBoard ==
    /\ \E size \in 0 .. BoardSize :
          LET new == BoardNew(size, 1)
          IN  /\ made' = [op |-> "Board", size |-> size, exc |-> new.exc, refs |-> <<>>]
              /\ pos' = IF new.exc = "none" THEN new.board ELSE pos
              /\ done' = IF new.exc = "none" THEN NotCalled ELSE done
    /\ UNCHANGED <<gvars, gamevars>>

\* The program is started with a board of the size.
NewGame ==
    /\ \E size \in 0 .. BoardSize :
          LET new == GoNew(size)
          IN  made' = [op |-> "Go", size |-> size, exc |-> new.exc, refs |-> new.refs]
    /\ UNCHANGED <<pos, done, gvars, gamevars>>

----------------------------------------------------------------------------
(* A board of its own, with its dict kept in full: g is the dict of the    *)
(* board (the points by their numbers, each with its neighbourhood) and    *)
(* pos the board.  The loops of Board.__init__ and every placement go      *)
(* through Directed.__setitem__, which pops the stone and adds it again.   *)

\* The first loop of Board.__init__: every stone is set with no neighbourhood.
RECURSIVE init_blank(_, _, _)
init_blank(G, i, n) ==
    IF i > n THEN G ELSE init_blank(setitem(G, i, {}).g, i + 1, n)

\* The second loop of Board.__init__: every stone of a copy of the dict is set
\* again, with the stones on the adjacent points that are within the bounds.
RECURSIVE init_wire(_, _, _, _)
init_wire(G, keys, k, size) ==
    IF k > Len(keys) THEN G
    ELSE init_wire(setitem(G, keys[k], neighbors(keys[k], size)).g, keys, k + 1, size)

\* The dict of Board(size=size) after the loops.
BoardGraph(size) ==
    LET blank == init_blank(EmptyGraph, 1, Side(size) * Side(size))
    IN  init_wire(blank, blank.keys, 1, size)

\* A method has been called on the point i of pos, which had a colour.
Did(op, i, color) ==
    done' = [op |-> op, color |-> color, nodes |-> {i}, pre |-> NoBoard,
             out |-> {ColorAt(pos, i)}, exc |-> "none", n |-> done.n + 1]

PlaceInit ==
    /\ \E size \in 0 .. BoardSize :
          /\ g = BoardGraph(size)
          /\ pos = Board(NoBoard, size, <<>>)
    /\ call = Called("init", 0, {}, EmptyGraph)
    /\ ret = {}
    /\ exc = "none"
    /\ done = NotCalled
    /\ made = NotMade
    /\ GameInit

\* Board.put and Board.__setitem__: the stone is set with the neighbourhood
\* the dict has for its point.
Put ==
    /\ done.n < MaxOps
    /\ \E i \in 1 .. Side(pos.size) * Side(pos.size), color \in Players \cup {"empty"} :
          /\ g' = setitem(g, i, g.nbr[i]).g
          /\ pos' = put(pos, Stone(FileOf(i, pos.size), RankOf(i, pos.size), pos.size, color))
          /\ Did("put", i, color)
    /\ UNCHANGED <<call, ret, exc, made, gamevars>>

\* Board.__delitem__: Board.__setitem__ with an empty stone.
Delete ==
    /\ done.n < MaxOps
    /\ \E i \in 1 .. Side(pos.size) * Side(pos.size) :
          /\ g' = setitem(g, i, g.nbr[i]).g
          /\ pos' = put(pos, Stone(FileOf(i, pos.size), RankOf(i, pos.size), pos.size, "empty"))
          /\ Did("delete", i, "empty")
    /\ UNCHANGED <<call, ret, exc, made, gamevars>>

\* Board.remove: the stone of the dict is made empty.
Remove ==
    /\ done.n < MaxOps
    /\ \E i \in 1 .. Side(pos.size) * Side(pos.size) :
          /\ pos' = remove(pos, Stone(FileOf(i, pos.size), RankOf(i, pos.size), pos.size, "empty"))
          /\ Did("remove", i, "empty")
    /\ UNCHANGED <<gvars, made, gamevars>>

PlaceNext ==
    \/ NewBoard
    \/ NewGame
    \/ Put
    \/ Delete
    \/ Remove

PlaceSpec == PlaceInit /\ [][PlaceNext]_vars

----------------------------------------------------------------------------
(* Properties of the constructors and of a board of its own.               *)

\* C12: in a game created with a given board, the game, the black player
\* and the white player all refer to that board.
C12_OneBoard ==
    made.op = "Go" =>
        /\ made.exc = "none"
        /\ made.refs.game = "given"
        /\ made.refs.black = made.refs.game
        /\ made.refs.white = made.refs.game

\* C18: Board(size=s) builds a board whose nodes are exactly the (2s+1)^2
\* points within the bounds, every one of them empty.
C18_FreshBoard ==
    made.op = "Board" =>
        /\ made.exc = "none"
        /\ done.n = 0 => /\ pos.size = made.size
                         /\ pos.kept = <<>>
                         /\ Count(pos) = Side(made.size) * Side(made.size)
                         /\ \A i \in Points(pos) : ColorAt(pos, i) = "empty"

Abs(x) == IF x < 0 THEN -x ELSE x

\* The points one step east, north, west or south of the point i.
Orthogonal(i, size) ==
    {j \in 1 .. Side(size) * Side(size) :
        Abs(FileOf(i, size) - FileOf(j, size)) + Abs(RankOf(i, size) - RankOf(j, size)) = 1}

\* How many of the coordinates of the point are on the rim of the board.
OnRim(i, size) ==
    (IF Abs(FileOf(i, size)) = size THEN 1 ELSE 0) + (IF Abs(RankOf(i, size)) = size THEN 1 ELSE 0)

\* The dict of a fresh board holds the points of the board, each with the
\* points next to it, and the edges are symmetric.
Wired ==
    /\ Range(g.keys) = Points(pos)
    /\ \A i \in Points(pos) : g.nbr[i] = Orthogonal(i, pos.size)
    /\ Symmetric(g)

----------------------------------------------------------------------------
(* The groups of a player and their capture, on a board of any colouring   *)
(* (what Board(size=, color=) builds from a callback, as Board.random      *)
(* does): one method is called on the board, and the call, the board it    *)
(* was called on and the result are kept in done.                          *)

\* Player.bases: the clusters of the board under color_similarity, and the
\* board in the dict order the traversals leave.
bases(B, color) ==
    LET c == clusters(Graph(B), {i \in DOMAIN B.color : B.color[i] = color})
    IN  [board |-> [B EXCEPT !.moved = Moved(c.g.keys)], bases |-> c.ret]

\* The inner loop of Player.kill: the colour of every stone of the base is
\* deleted, and the stone is deleted from the board (Board.__delitem__ sets an
\* empty stone on its point).
RECURSIVE kill_base(_, _)
kill_base(B, todo) ==
    IF todo = <<>> THEN B
    ELSE kill_base(put(B, Stone(FileOf(Head(todo), B.size), RankOf(Head(todo), B.size),
                                B.size, "empty")),
                   Tail(todo))

\* The outer loop of Player.kill over the bases still to come, in any order
\* (they are a set of frozensets): the boards it may leave.  A base that has
\* a liberty when the loop comes to it is passed over, and has one whenever
\* the loop comes to it later, since the loop only empties stones; so the
\* orders differ only in which base without a liberty comes next.
RECURSIVE kill_bases(_, _)
kill_bases(B, todo) ==
    LET dead == {b \in todo : liberties(B, b) = {}}
    IN  IF dead = {} THEN {B}
        ELSE UNION {kill_bases(kill_base(B, Sorted(b)), todo \ {b}) : b \in dead}

\* Player.kill for the player of the colour: the boards it may leave.
kill(B, color) ==
    LET found == bases(B, color)
    IN  kill_bases(found.board, found.bases)

\* The colourings of a board of the size.
Colorings(size) ==
    UNION {[stones -> Players] : stones \in SUBSET (1 .. Side(size) * Side(size))}

PositionInit ==
    /\ \E color \in Colorings(BoardSize) : pos = Board(NoBoard, BoardSize, color)
    /\ g = EmptyGraph
    /\ call = Called("init", 0, {}, EmptyGraph)
    /\ ret = {}
    /\ exc = "none"
    /\ done = NotCalled
    /\ made = NotMade
    /\ GameInit

\* A method of the player of the colour has been called on pos.
Counted(op, color, out) ==
    done' = [op |-> op, color |-> color, nodes |-> {}, pre |-> pos, out |-> out,
             exc |-> "none", n |-> done.n + 1]

Bases ==
    /\ done.n = 0
    /\ \E color \in Players :
          LET found == bases(pos, color)
          IN  /\ pos' = found.board
              /\ Counted("bases", color, found.bases)
    /\ UNCHANGED <<gvars, made, gamevars>>

Kill ==
    /\ done.n = 0
    /\ \E color \in Players :
          /\ pos' \in kill(pos, color)
          /\ Counted("kill", color, {})
    /\ UNCHANGED <<gvars, made, gamevars>>

PositionNext ==
    \/ Bases
    \/ Kill

PositionSpec == PositionInit /\ [][PositionNext]_vars

LibertyInit ==
    /\ \E stones \in {S \in SUBSET (1 .. Side(BoardSize) * Side(BoardSize)) :
                          Cardinality(S) <= MaxStones} :
          \E color \in [stones -> Players] : pos = Board(NoBoard, BoardSize, color)
    /\ g = EmptyGraph
    /\ call = Called("init", 0, {}, EmptyGraph)
    /\ ret = {}
    /\ exc = "none"
    /\ done = NotCalled
    /\ made = NotMade
    /\ GameInit

\* board.liberties(base) for a set of stones of the board; the board is
\* only read.
Liberties ==
    /\ done.n = 0
    /\ \E stones \in {S \in SUBSET Points(pos) : Cardinality(S) <= MaxGroup} :
          done' = [op |-> "liberties", color |-> "empty", nodes |-> stones, pre |-> pos,
                   out |-> liberties(pos, stones), exc |-> "none", n |-> done.n + 1]
    /\ UNCHANGED <<pos, gvars, made, gamevars>>

LibertyNext == Liberties

LibertySpec == LibertyInit /\ [][LibertyNext]_vars

lookup_clamped(B, point) ==
    LET clamp(x) == IF x < -B.size THEN -B.size ELSE IF x > B.size THEN B.size ELSE x
    IN  [exc |-> "none",
         stone |-> getitem(B, Stone(clamp(point.file), clamp(point.rank), B.size, "empty"))]

\* The search for the key that equals the point: the loop of
\* Board.__getitem__, and dict.__getitem__ in Board.__setitem__ and
\* Board.put.  No key equal to the point raises KeyError.
lookup(B, point) ==
    IF HasKey(B, point)
    THEN [exc |-> "none", stone |-> getitem(B, point)]
    ELSE [exc |-> "KeyError", stone |-> point]

\* The coordinates a caller may give: those of the board and one step off it.
Coordinates == -(BoardSize + 1) .. (BoardSize + 1)

AccessInit ==
    /\ \E size \in 0 .. BoardSize :
          /\ \E stones \in {S \in SUBSET (1 .. Side(size) * Side(size)) :
                                Cardinality(S) <= MaxStones} :
                \E color \in [stones -> Players] : pos = Board(NoBoard, size, color)
          /\ g = BoardGraph(size)
    /\ call = Called("init", 0, {}, EmptyGraph)
    /\ ret = {}
    /\ exc = "none"
    /\ done = NotCalled
    /\ made = NotMade
    /\ GameInit

\* A method has been called with the point (file, rank) of pos.
Accessed(op, file, rank, color, found) ==
    done' = [op |-> op, color |-> color, nodes |-> {<<file, rank>>}, pre |-> pos,
             out |-> IF found.exc = "none" THEN {found.stone.color} ELSE {},
             exc |-> found.exc, n |-> done.n + 1]

\* board[point]
GetItem ==
    /\ done.n = 0
    /\ \E file \in Coordinates, rank \in Coordinates :
          Accessed("getitem", file, rank, "empty",
                   lookup(pos, Stone(file, rank, pos.size, "empty")))
    /\ UNCHANGED <<pos, gvars, made, gamevars>>

\* board[point] = color and board.put(stone): the neighbourhood of the point
\* is looked up first, and the stone is set with it.
Place ==
    /\ done.n = 0
    /\ \E file \in Coordinates, rank \in Coordinates, color \in Players \cup {"empty"} :
          LET found == lookup(pos, Stone(file, rank, pos.size, "empty"))
          IN  /\ Accessed("place", file, rank, color, found)
              /\ IF found.exc # "none"
                 THEN UNCHANGED <<pos, g>>
                 ELSE LET i == Index(found.stone.file, found.stone.rank, pos.size)
                      IN  /\ g' = setitem(g, i, g.nbr[i]).g
                          /\ pos' = put(pos, Stone(found.stone.file, found.stone.rank,
                                                   pos.size, color))
    /\ UNCHANGED <<call, ret, exc, made, gamevars>>

AccessNext ==
    \/ GetItem
    \/ Place

AccessSpec == AccessInit /\ [][AccessNext]_vars

DigitChars == <<"0", "1", "2", "3", "4", "5", "6", "7", "8", "9">>

Whitespace == {" ", "\n", "\t"}

\* str(n) for a natural number n.
RECURSIVE Digits(_)
Digits(n) ==
    IF n < 10 THEN <<DigitChars[n + 1]>>
    ELSE Append(Digits(n \div 10), DigitChars[(n % 10) + 1])

\* str(stone): the character of the colour (Color.__repr__).
Str(color) ==
    CASE color = "black" -> "U+26AB"
      [] color = "empty" -> "U+1F7E4"
      [] color = "white" -> "U+26AA"

\* Board.__str__: a newline and the characters of the stones, sorted by rank
\* and file, with nothing between them.
str(B) ==
    <<"\n">> \o [i \in 1 .. Side(B.size) * Side(B.size) |-> Str(ColorAt(B, i))]

\* Board.save: what is written to the file.
save(B) == Digits(B.size) \o <<"\n">> \o str(B)

\* read_strip(1) of Board.load: the next character that is not whitespace
\* and what is left of the file after it; at the end of the file the
\* character is the empty string.
RECURSIVE read_strip(_)
read_strip(text) ==
    IF text = <<>> THEN [char |-> "", rest |-> <<>>]
    ELSE IF Head(text) \in Whitespace THEN read_strip(Tail(text))
    ELSE [char |-> Head(text), rest |-> Tail(text)]

\* int(char) for one character.
int(char) ==
    IF \E d \in DOMAIN DigitChars : DigitChars[d] = char
    THEN [exc |-> "none", value |-> (CHOOSE d \in DOMAIN DigitChars : DigitChars[d] = char) - 1]
    ELSE [exc |-> "ValueError", value |-> 0]

\* Color(char): the member of Color whose value is the argument.  The values
\* are the integers +1, 0 and -1, and what is read from the file is a str,
\* which is none of them.
Color(char) == [exc |-> "ValueError", name |-> "empty"]

\* Board.load: the size is read, and the board is constructed with a
\* callback that reads the colour of the next stone.
load(text) ==
    LET first == read_strip(text)
        size  == int(first.char)
    IN  IF size.exc # "none"
        THEN [exc |-> size.exc, size |-> 0, board |-> NoBoard]
        ELSE LET built == BoardNew(size.value, 1)
             IN  IF built.exc # "none"
                 THEN [exc |-> built.exc, size |-> size.value, board |-> NoBoard]
                 ELSE [exc |-> Color(read_strip(first.rest).char).exc, size |-> size.value,
                       board |-> NoBoard]

FileInit ==
    /\ \E size \in 0 .. BoardSize :
          \E stones \in {S \in SUBSET (1 .. Side(size) * Side(size)) :
                             Cardinality(S) <= MaxStones} :
              \E color \in [stones -> Players] : pos = Board(NoBoard, size, color)
    /\ g = EmptyGraph
    /\ call = Called("init", 0, {}, EmptyGraph)
    /\ ret = {}
    /\ exc = "none"
    /\ done = NotCalled
    /\ made = NotMade
    /\ GameInit

\* board.save(filename); done.out is the file.
Save ==
    /\ done.n = 0
    /\ done' = [op |-> "save", color |-> "empty", nodes |-> {}, pre |-> pos,
                out |-> save(pos), exc |-> "none", n |-> done.n + 1]
    /\ UNCHANGED <<pos, gvars, made, gamevars>>

\* Board.load(filename) of the file saved.
Load ==
    /\ done.op = "save"
    /\ made.op = "none"
    /\ LET loaded == load(done.out)
       IN  /\ made' = [op |-> "load", size |-> loaded.size, exc |-> loaded.exc, refs |-> <<>>]
           /\ pos' = IF loaded.exc = "none" THEN loaded.board ELSE pos
    /\ UNCHANGED <<done, gvars, gamevars>>

FileNext ==
    \/ Save
    \/ Load

FileSpec == FileInit /\ [][FileNext]_vars

\* C22: loading the text a board was saved as returns a board of the same
\* size with the same colour on every point.
C22_RoundTrip ==
    made.op = "load" =>
        /\ made.exc = "none"
        /\ pos.size = done.pre.size
        /\ Colors(pos) = Colors(done.pre)

\* ---------------------------------------------------------------------
\* The methods of a graph, called one after another on a constructed graph;
\* the last call, the graph it was made on and what it returned are kept.

Invoked(op, node, nodes, other) ==
    [op |-> op, node |-> node, nodes |-> nodes, other |-> other, pre |-> g,
     n |-> call.n + 1]

\* Undirected(mapping)
MethodInit ==
    /\ \E mapping \in Mappings :
          /\ g = UndirectedInit(mapping)
          /\ call = [op |-> "init", node |-> 0, nodes |-> {}, other |-> mapping,
                     pre |-> EmptyGraph, n |-> 0]
    /\ ret = {}
    /\ exc = "none"
    /\ GameInit
    /\ UnitInit

Applied(op, node, nodes, other, r) ==
    /\ call.n < MaxCalls
    /\ call' = Invoked(op, node, nodes, other)
    /\ g' = r.g
    /\ ret' = r.ret
    /\ exc' = r.exc
    /\ UNCHANGED gamevars
    /\ UNCHANGED unitvars

CallAdd ==
    \E node \in Nodes, neighbohood \in SUBSET Nodes :
        Applied("add", node, neighbohood, EmptyGraph,
                Result(add(g, node, neighbohood), {}, "none"))

CallUpdate ==
    \E other \in Mappings :
        Applied("update", 0, {}, other, Result(update(g, other), {}, "none"))

CallSetItem ==
    \E node \in Nodes, neighborhood \in SUBSET Nodes :
        Applied("setitem", node, neighborhood, EmptyGraph, setitem(g, node, neighborhood))

CallPop ==
    \E node \in Nodes, default_neighborhood \in SUBSET Nodes :
        Applied("pop", node, default_neighborhood, EmptyGraph,
                pop(g, node, default_neighborhood))

CallDel ==
    \E node \in Nodes :
        Applied("del", node, {}, EmptyGraph, delitem(g, node))

\* popitem returns the last key with its neighbourhood.
CallPopItem ==
    Applied("popitem", IF g.keys = <<>> THEN 0 ELSE g.keys[Len(g.keys)], {}, EmptyGraph,
            popitem(g))

CallClear ==
    Applied("clear", 0, {}, EmptyGraph, Result(clear(g), {}, "none"))

MethodNext ==
    \/ CallAdd
    \/ CallUpdate
    \/ CallSetItem
    \/ CallPop
    \/ CallDel
    \/ CallPopItem
    \/ CallClear

MethodSpec == MethodInit /\ [][MethodNext]_vars

\* The neighbourhood of the node in G, empty when the node is no key.
Neighbors(G, n) == IF Has(G, n) THEN G.nbr[n] ELSE {}

\* C23: after construction, add, update and __setitem__ no node of the graph
\* is in its own neighbourhood.
C23_NoSelfEdge ==
    call.op \in {"init", "add", "update", "setitem"} =>
        \A n \in DOMAIN g.nbr : n \notin g.nbr[n]

Removed == call.op \in {"pop", "del", "popitem"} /\ Has(call.pre, call.node)

\* What C25 says of a removal: the neighbourhood the node had is returned,
\* the node is no key and in no neighbourhood, every other node is a key
\* still, and every other edge is as it was.
RemovedClean ==
    /\ exc = "none"
    /\ call.op # "del" => ret = call.pre.nbr[call.node]
    /\ DOMAIN g.nbr = DOMAIN call.pre.nbr \ {call.node}
    /\ \A m \in DOMAIN g.nbr : g.nbr[m] = call.pre.nbr[m] \ {call.node}

\* C25 as stated: removing a node of any graph.
C25_RemoveNode == Removed => RemovedClean

\* Removing a node of a graph whose edges are symmetric and that has no
\* self-edge is as C25 says.
RemoveNodeOfSymmetric ==
    (Removed /\ Symmetric(call.pre) /\ \A n \in DOMAIN call.pre.nbr : n \notin call.pre.nbr[n])
        => RemovedClean

\* C26: pop(node, default) for a node that is no node of the graph returns
\* the default, raises nothing and leaves the graph as it was, whatever
\* nodes the default names.
C26_PopAbsent ==
    (call.op = "pop" /\ ~Has(call.pre, call.node)) =>
        /\ exc = "none"
        /\ ret = call.nodes
        /\ g = call.pre

C30_ClearIsolated ==
    call.op = "clear" =>
        /\ exc = "none"
        /\ DOMAIN g.nbr = {n \in DOMAIN call.pre.nbr : call.pre.nbr[n] # {}}
        /\ \A n \in DOMAIN g.nbr : g.nbr[n] = call.pre.nbr[n]
        /\ edge_list(g) = edge_list(call.pre)
        /\ (\A n \in DOMAIN call.pre.nbr : call.pre.nbr[n] = {}) => g = EmptyGraph

\* C30: clear was called on a graph that had an isolated node and an edge.
C30_Witness ==
    /\ call.op = "clear"
    /\ \E n \in DOMAIN call.pre.nbr : call.pre.nbr[n] = {}
    /\ g # EmptyGraph
    /\ g # call.pre

\* ---------------------------------------------------------------------
\* Graphs that share their neighbourhoods.
\*
\* The neighbourhoods of a graph are set objects, and a second graph made of
\* a copy of the dict (self.__class__(self.copy())) holds the same objects:
\* what is added to or discarded from a neighbourhood through the one graph
\* is added to or discarded from it in the other.  Here a heap is the
\* sequence of the set objects, and a graph is the record [keys |-> its keys
\* in dict order, ref |-> the place in the heap of the neighbourhood of every
\* key].

\* The graph G of values put on the heap, every neighbourhood a new object.
Store(H, G) ==
    [h |-> H \o [i \in 1 .. Len(G.keys) |-> G.nbr[G.keys[i]]],
     g |-> [keys |-> G.keys,
            ref  |-> [n \in DOMAIN G.nbr |->
                         Len(H) + (CHOOSE i \in 1 .. Len(G.keys) : G.keys[i] = n)]]]

\* The graph of values a graph on the heap is at the moment.
View(H, R) == [keys |-> R.keys, nbr |-> [n \in DOMAIN R.ref |-> H[R.ref[n]]]]

Outcome(H, R, e) == [h |-> H, g |-> R, exc |-> e]

\* Directed.setdefault without a default: an absent node gets a new empty set.
ref_setdefault(H, R, node) ==
    IF node \in DOMAIN R.ref THEN Outcome(H, R, "none")
    ELSE Outcome(Append(H, {}),
                 [keys |-> Append(R.keys, node),
                  ref  |-> [n \in DOMAIN R.ref \cup {node} |->
                               IF n = node THEN Len(H) + 1 ELSE R.ref[n]]],
                 "none")

\* The loop of Undirected.add over the set object at place nid, whose members
\* at the start of the loop are todo.  A set that changes under the loop
\* over it raises RuntimeError.
RECURSIVE ref_add_symmetric(_, _, _, _, _)
ref_add_symmetric(H, R, node, nid, todo) ==
    IF todo = <<>> THEN Outcome(H, R, "none")
    ELSE LET s  == ref_setdefault(H, R, Head(todo))
             at == s.g.ref[Head(todo)]
             H1 == [s.h EXCEPT ![at] = @ \cup {node}]
         IN  IF H1[nid] # H[nid] THEN Outcome(H1, s.g, "RuntimeError")
             ELSE ref_add_symmetric(H1, s.g, node, nid, Tail(todo))

\* Undirected.add(node, neighbohood), the neighbourhood being the set object
\* at place nid.
ref_add(H, R, node, nid) ==
    LET s  == ref_setdefault(H, R, node)
        H1 == [s.h EXCEPT ![s.g.ref[node]] = @ \cup s.h[nid]]
    IN  ref_add_symmetric(H1, s.g, node, nid, Sorted(H1[nid]))

\* The loop of Undirected.pop over the set object at place nid.
RECURSIVE ref_pop_symmetric(_, _, _, _, _)
ref_pop_symmetric(H, R, node, nid, todo) ==
    IF todo = <<>> THEN Outcome(H, R, "none")
    ELSE IF Head(todo) \notin DOMAIN R.ref THEN Outcome(H, R, "KeyError")
    ELSE LET H1 == [H EXCEPT ![R.ref[Head(todo)]] = @ \ {node}]
         IN  IF H1[nid] # H[nid] THEN Outcome(H1, R, "RuntimeError")
             ELSE ref_pop_symmetric(H1, R, node, nid, Tail(todo))

\* Undirected.pop(node, default_neighborhood), the default being the set
\* object at place did.
ref_pop(H, R, node, did) ==
    IF node \in DOMAIN R.ref
    THEN LET R1 == [keys |-> SelectSeq(R.keys, LAMBDA k : k # node),
                    ref  |-> [n \in DOMAIN R.ref \ {node} |-> R.ref[n]]]
         IN  ref_pop_symmetric(H, R1, node, R.ref[node], Sorted(H[R.ref[node]]))
    ELSE ref_pop_symmetric(H, R, node, did, Sorted(H[did]))

\* Directed.update(other): the items of other are read in its dict order.
RECURSIVE ref_update(_, _, _, _)
ref_update(H, R, other, i) ==
    IF i > Len(other.keys) THEN Outcome(H, R, "none")
    ELSE LET a == ref_add(H, R, other.keys[i], other.ref[other.keys[i]])
         IN  IF a.exc # "none" THEN a ELSE ref_update(a.h, a.g, other, i + 1)

\* The loop of Directed.__init__: every node is discarded from its own
\* neighbourhood.
RECURSIVE ref_discard_self(_, _, _)
ref_discard_self(H, R, i) ==
    IF i > Len(R.keys) THEN H
    ELSE ref_discard_self([H EXCEPT ![R.ref[R.keys[i]]] = @ \ {R.keys[i]}], R, i + 1)

\* self.__class__(self.copy()): Undirected.__init__ on a dict that holds the
\* set objects of the graph it was copied from.
ref_init(H, R) ==
    LET H1 == ref_discard_self(H, R, 1)
    IN  ref_update(H1, R, R, 1)

\* Directed.union
union(H, A, B) ==
    LET undirected == ref_init(H, A)
    IN  IF undirected.exc # "none" THEN undirected
        ELSE ref_update(undirected.h, undirected.g, B, 1)

\* Directed.difference_update
RECURSIVE difference_update(_, _, _, _)
difference_update(H, R, other, i) ==
    IF i > Len(other.keys) THEN Outcome(H, R, "none")
    ELSE LET p == ref_pop(H, R, other.keys[i], other.ref[other.keys[i]])
         IN  IF p.exc # "none" THEN p ELSE difference_update(p.h, p.g, other, i + 1)

\* Directed.difference
difference(H, A, B) ==
    LET undirected == ref_init(H, A)
    IN  IF undirected.exc # "none" THEN undirected
        ELSE difference_update(undirected.h, undirected.g, B, 1)

\* Directed.intersection
intersection(H, A, B) ==
    LET inner == difference(H, A, B)
    IN  IF inner.exc # "none" THEN inner
        ELSE difference(inner.h, A, inner.g)

\* Directed.symmetric_difference
symmetric_difference(H, A, B) ==
    LET united == union(H, A, B)
    IN  IF united.exc # "none" THEN united
        ELSE LET common == intersection(united.h, A, B)
             IN  IF common.exc # "none" THEN common
                 ELSE difference(common.h, united.g, common.g)

\* The loop of all() in issubset and issuperset over the keys of the graph
\* whose nodes are visited; the neighbourhood of the node in the other graph
\* is looked up with dict.__getitem__.
RECURSIVE all_within(_, _, _, _)
all_within(small, large, keys, i) ==
    IF i > Len(keys) THEN Result(EmptyGraph, TRUE, "none")
    ELSE LET node == keys[i]
         IN  IF ~Has(small, node) \/ ~Has(large, node) THEN Result(EmptyGraph, FALSE, "KeyError")
             ELSE IF ~(small.nbr[node] \subseteq large.nbr[node])
             THEN Result(EmptyGraph, FALSE, "none")
             ELSE all_within(small, large, keys, i + 1)

\* Directed.issubset: the nodes visited are those of other.
issubset(G, other) ==
    IF ~(DOMAIN G.nbr \subseteq DOMAIN other.nbr) THEN Result(EmptyGraph, FALSE, "none")
    ELSE all_within(G, other, other.keys, 1)

\* Directed.issuperset: the nodes visited are those of the graph itself.
issuperset(G, other) ==
    IF ~(DOMAIN other.nbr \subseteq DOMAIN G.nbr) THEN Result(EmptyGraph, FALSE, "none")
    ELSE all_within(other, G, G.keys, 1)

\* ---------------------------------------------------------------------
\* Set algebra and comparison of two constructed graphs.  g is the graph the
\* method is called on; call.other is the other graph.

AlgebraInit ==
    /\ \E mapping \in Mappings, other \in Mappings :
          /\ g = UndirectedInit(mapping)
          /\ call = [op |-> "init", node |-> 0, nodes |-> {}, other |-> UndirectedInit(other),
                     pre |-> EmptyGraph, n |-> 0]
    /\ ret = {}
    /\ exc = "none"
    /\ GameInit
    /\ UnitInit

\* The two graphs on a heap, every neighbourhood a set object of its own.
Operands ==
    LET self  == Store(<<>>, g)
        other == Store(self.h, call.other)
    IN  [h |-> other.h, self |-> self.g, other |-> other.g]

\* A method that returns a graph: what it returns, and the graph it was
\* called on and the graph it was given as the call leaves them.
Combined(op, r) ==
    /\ call.n = 0
    /\ call' = Invoked(op, 0, {}, View(r.h, Operands.other))
    /\ g' = View(r.h, Operands.self)
    /\ ret' = IF r.exc = "none" THEN View(r.h, r.g) ELSE EmptyGraph
    /\ exc' = r.exc
    /\ UNCHANGED gamevars
    /\ UNCHANGED unitvars

\* A method that returns a truth value.
Compared(op, r) ==
    /\ call.n = 0
    /\ call' = Invoked(op, 0, {}, call.other)
    /\ ret' = r.ret
    /\ exc' = r.exc
    /\ UNCHANGED g
    /\ UNCHANGED gamevars
    /\ UNCHANGED unitvars

Union ==
    Combined("union", union(Operands.h, Operands.self, Operands.other))

Difference ==
    Combined("difference", difference(Operands.h, Operands.self, Operands.other))

Intersection ==
    Combined("intersection", intersection(Operands.h, Operands.self, Operands.other))

SymmetricDifference ==
    Combined("symmetric_difference", symmetric_difference(Operands.h, Operands.self, Operands.other))

IsSubset == Compared("issubset", issubset(g, call.other))

IsSuperset == Compared("issuperset", issuperset(g, call.other))

AlgebraNext ==
    \/ Union
    \/ Difference
    \/ Intersection
    \/ SymmetricDifference
    \/ IsSubset
    \/ IsSuperset

AlgebraSpec == AlgebraInit /\ [][AlgebraNext]_vars

\* C27: union, difference, intersection and symmetric difference of any two
\* graphs raise nothing and return a graph whose nodes are the nodes of the
\* two in union, difference, intersection and symmetric difference, and none
\* of whose edges leads to a node outside it.
C27_SetAlgebra ==
    call.op \in {"union", "difference", "intersection", "symmetric_difference"} =>
        LET A == DOMAIN call.pre.nbr
            B == DOMAIN call.other.nbr
        IN  /\ exc = "none"
            /\ DOMAIN ret.nbr = CASE call.op = "union" -> A \cup B
                                  [] call.op = "difference" -> A \ B
                                  [] call.op = "intersection" -> A \cap B
                                  [] call.op = "symmetric_difference" ->
                                         (A \ B) \cup (B \ A)
            /\ \A n \in DOMAIN ret.nbr : ret.nbr[n] \subseteq DOMAIN ret.nbr

\* C28: A <= B is true exactly when every node of A is a node of B with its
\* neighbourhood in A contained in its neighbourhood in B, and raises
\* nothing; A >= B is the mirror image.
C28_SubsetSuperset ==
    /\ call.op = "issubset" =>
          /\ exc = "none"
          /\ ret = (/\ DOMAIN call.pre.nbr \subseteq DOMAIN call.other.nbr
                    /\ \A n \in DOMAIN call.pre.nbr :
                          n \in DOMAIN call.other.nbr
                             => call.pre.nbr[n] \subseteq call.other.nbr[n])
    /\ call.op = "issuperset" =>
          /\ exc = "none"
          /\ ret = (/\ DOMAIN call.other.nbr \subseteq DOMAIN call.pre.nbr
                    /\ \A n \in DOMAIN call.other.nbr :
                          n \in DOMAIN call.pre.nbr
                             => call.other.nbr[n] \subseteq call.pre.nbr[n])

----------------------------------------------------------------------------
(* Stones compared by allegiance.                                          *)
(*                                                                         *)
(* The Stone of stone.py is a point with a colour; its colour is a member  *)
(* of the integer flag Color, looked up by name when a string is given.    *)

\* Color: the value of each member.
ColorValue(name) ==
    CASE name = "black" -> 1
      [] name = "empty" -> 0
      [] name = "white" -> -1

\* An inequality that is the negation of the equality.
color_differs(self, other) == self # other

\* Color.__ne__
color_ne(self, other) == Abs(self - other) = 2

\* Color.__eq__ is the equality of integers.
color_eq(self, other) == self = other

\* Stone.__post_init__: the point of a pair of coordinates, the colour of
\* a name.
post_init(file, rank, name) ==
    [point |-> [file |-> file, rank |-> rank, size |-> DefaultSize],
     color |-> ColorValue(name)]

\* Stone.__eq__
stone_eq(self, other) == color_eq(self.color, other.color)

\* Stone.__ne__
stone_ne(self, other) == color_ne(self.color, other.color)

ColorNames == {"black", "empty", "white"}

\* Two stones, anywhere on the points of the board.
StoneInit ==
    /\ \E file, rank, other_file, other_rank \in -BoardSize .. BoardSize :
          \E name, other_name \in ColorNames :
             call = [op |-> "init", self |-> post_init(file, rank, name),
                     other |-> post_init(other_file, other_rank, other_name),
                     names |-> <<name, other_name>>, n |-> 0]
    /\ g = EmptyGraph
    /\ ret = FALSE
    /\ exc = "none"
    /\ GameInit
    /\ UnitInit

\* self == other
StoneEq ==
    /\ call.n < MaxCalls
    /\ call' = [call EXCEPT !.op = "eq", !.n = @ + 1]
    /\ ret' = stone_eq(call.self, call.other)
    /\ UNCHANGED <<g, exc, gamevars, unitvars>>

\* self != other
StoneNe ==
    /\ call.n < MaxCalls
    /\ call' = [call EXCEPT !.op = "ne", !.n = @ + 1]
    /\ ret' = stone_ne(call.self, call.other)
    /\ UNCHANGED <<g, exc, gamevars, unitvars>>

StoneNext ==
    \/ StoneEq
    \/ StoneNe

StoneSpec == StoneInit /\ [][StoneNext]_vars

----------------------------------------------------------------------------
(* Traversal of a graph that methods have been called on.                  *)

\* graph.cluster(node, condition); the node is kept in `node`, the nodes
\* the predicate is true of in `nodes`.
CallCluster ==
    \E node \in Nodes, condition \in SUBSET Nodes :
        Applied("cluster", node, condition, EmptyGraph, cluster(g, node, condition))

\* graph.clusters(condition)
CallClusters ==
    \E condition \in SUBSET Nodes :
        Applied("clusters", 0, condition, EmptyGraph, clusters(g, condition))

TraverseNext ==
    \/ CallAdd
    \/ CallCluster
    \/ CallClusters

TraverseSpec == MethodInit /\ [][TraverseNext]_vars

\* The graph has the nodes and the edges of the graph the last call was
\* made on.
SameGraph == g.nbr = call.pre.nbr

\* cluster or clusters was called, cluster on a node of the graph.
Traversed ==
    \/ call.op = "cluster" /\ Has(call.pre, call.node)
    \/ call.op = "clusters"

\* C32: cluster(node, predicate) on a graph that has the node, and
\* clusters(predicate), return and leave the graph with the node set and
\* the edge set it had before the call, isolated nodes and cycles included.
C32_TraversalRestores == Traversed => (exc = "none" /\ SameGraph)

\* The same of a graph whose edges are symmetric and that has no self-edge.
TraversalRestoresSymmetric ==
    (Traversed /\ Symmetric(call.pre) /\ \A n \in Nodes : n \notin Neighbors(call.pre, n))
        => (exc = "none" /\ SameGraph)

----------------------------------------------------------------------------
(* The operands of the set operations.                                     *)

SetOperations == {"union", "difference", "intersection", "symmetric_difference"}

\* C33: union, difference, intersection and symmetric_difference leave both
\* operands as they were: the graph they are called on and the graph they
\* are given have the nodes and the neighbourhoods they had before the call.
C33_OperandsUnchanged ==
    [][call'.op \in SetOperations => (g'.nbr = g.nbr /\ call'.other.nbr = call.other.nbr)]_vars

\* The graph given to a set operation is left as it was.
OtherOperandUnchanged ==
    [][call'.op \in SetOperations => call'.other.nbr = call.other.nbr]_vars

----------------------------------------------------------------------------
(* The position between turns.                                             *)

====
